---- MODULE Spec2Model ----
(***************************************************************************)
(* Model of app.py: a Streamlit dashboard that loads one Google Sheet      *)
(* through two memoized functions (connect_to_gsheet, load_data), coerces  *)
(* column types and renders the page.  Every user session re-executes the  *)
(* script top to bottom; the resource cache, the data cache and the remote *)
(* sheet are shared by all sessions of the process.                        *)
(***************************************************************************)
EXTENDS Integers, Sequences, FiniteSets, TLC

VARIABLES
    resourceCache,  \* st.cache_resource entry of connect_to_gsheet
    handshakes,     \* number of gspread.authorize handshakes attempted
    dataCache,      \* st.cache_data entries of load_data, by (sheet_url, sheet_name)
    lock,           \* st.cache_data's per-key compute lock: holder or "free"
    remote,         \* the records the remote worksheet currently holds
    win,            \* history: per key, the first fetch of the current window
    pc,             \* per session: position of the script run
    sheet_url,      \* per session: text_input "URL Google Sheets:"
    sheet_name,     \* per session: text_input "Nama Sheet:"
    auto_refresh,   \* per session: checkbox
    button,         \* per session: "Refresh Sekarang" pressed in this run
    df,             \* per session: value returned by load_data in this run
    data,           \* per session: the records the sheet held when load_data read it
    local,          \* per session: load_data's local `df` while it is built
    idx,            \* per session: position of `for col in df.columns`
    seconds,        \* per session: countdown iterations still to run
    slept,          \* per session: time units slept in the current countdown
    page,           \* per session: elements the run has put on the page
    outcome,        \* per session: how the run's load_data call ended
    forced          \* per session: the clear this run follows: "no", "manual", "auto"

vars == <<resourceCache, handshakes, dataCache, lock, remote, win, pc, sheet_url,
          sheet_name, auto_refresh, button, df, data, local, idx, seconds, slept,
          page, outcome, forced>>

globals == <<resourceCache, handshakes, dataCache, lock, remote, win>>

(***************************************************************************)
(* Constants of the program and bounds of the model                        *)
(***************************************************************************)
TTL == 300              \* @st.cache_data(ttl=300)
Countdown == 300        \* range(300, 0, -1)
SleepUnit == 1          \* time.sleep(1)

IdleStep == 150         \* time that passes in one step while nothing runs
MaxRows == 2            \* rows of the generated frames of the coercion check
MaxHandshakes == 2      \* the handshake counter saturates here

Min(a, b) == IF a < b THEN a ELSE b

(***************************************************************************)
(* Strings as character sequences: str.lower() and the `in` substring test *)
(***************************************************************************)
UpperCase == <<"A","B","C","D","E","F","G","H","I","J","K","L","M",
               "N","O","P","Q","R","S","T","U","V","W","X","Y","Z">>
LowerCase == <<"a","b","c","d","e","f","g","h","i","j","k","l","m",
               "n","o","p","q","r","s","t","u","v","w","x","y","z">>

LowerChar(c) ==
    IF \E i \in 1..26 : UpperCase[i] = c
    THEN LowerCase[CHOOSE i \in 1..26 : UpperCase[i] = c]
    ELSE c

lower(s) == [i \in 1..Len(s) |-> LowerChar(s[i])]

Contains(sub, s) ==
    \E i \in 1..(Len(s) - Len(sub) + 1) : SubSeq(s, i, i + Len(sub) - 1) = sub

tanggal == <<"t","a","n","g","g","a","l">>
date == <<"d","a","t","e">>

\* 'tanggal' in col.lower() or 'date' in col.lower()
IsDateName(col) == Contains(tanggal, lower(col)) \/ Contains(date, lower(col))

\* the same test without .lower()
IsDateNameCaseSensitive(col) == Contains(tanggal, col) \/ Contains(date, col)

(***************************************************************************)
(* Cell values.  A cell is a number or a string; a converted cell may be a *)
(* date.  Strings are parsed through tables, as the parsers would.         *)
(***************************************************************************)
Num(n) == [k |-> "num", v |-> n]
Str(s) == [k |-> "str", v |-> s]
Date(d) == [k |-> "date", v |-> d]

NumericStrings == {"12"}
DateStrings == {"2024-01-01", "2024-01-02"}

ParseNum(s) == CASE s = "12" -> 12

ParseDate(s) == CASE s = "2024-01-01" -> 20240101
                  [] s = "2024-01-02" -> 20240102

\* what pd.to_numeric accepts
NumericParseable(x) == x.k = "num" \/ (x.k = "str" /\ x.v \in NumericStrings)

\* what pd.to_datetime accepts: date strings, numbers (epoch offsets), dates
DateParseable(x) == x.k \in {"num", "date"} \/ (x.k = "str" /\ x.v \in DateStrings)

NumericValue(x) == IF x.k = "num" THEN x ELSE Num(ParseNum(x.v))

DateValue(x) == CASE x.k = "date" -> x
                  [] x.k = "num" -> Date(x.v)
                  [] x.k = "str" -> Date(ParseDate(x.v))

(***************************************************************************)
(* Frames.  None and a DataFrame are records of one shape; a column is a   *)
(* name (character sequence), its values and its dtype.                    *)
(***************************************************************************)
NoneVal == [none |-> TRUE, cols |-> <<>>]

Column(name, vals, dtype) == [name |-> name, vals |-> vals, dtype |-> dtype]

\* dtype inference of pd.DataFrame: a column of numbers is int64, else object
InferDtype(vals) ==
    IF \A i \in 1..Len(vals) : vals[i].k = "num" THEN "int64" ELSE "object"

\* pd.DataFrame(data): records are <<names, rows>>; no records give no columns
DataFrame(records) ==
    IF records.rows = <<>>
    THEN [none |-> FALSE, cols |-> <<>>]
    ELSE [none |-> FALSE,
          cols |-> [j \in 1..Len(records.names) |->
                      LET vals == [i \in 1..Len(records.rows) |-> records.rows[i][j]]
                      IN Column(records.names[j], vals, InferDtype(vals))]]

\* df.empty
Empty(frame) ==
    frame.cols = <<>> \/ \A j \in 1..Len(frame.cols) : frame.cols[j].vals = <<>>

\* df.select_dtypes(include=['number']).columns
NumericCols(frame) ==
    {j \in 1..Len(frame.cols) : frame.cols[j].dtype = "int64"}

\* pd.to_numeric(col, errors='coerce') would blank what it cannot parse
ToNumericCoerce(col) ==
    Column(col.name,
           [i \in 1..Len(col.vals) |->
               IF NumericParseable(col.vals[i]) THEN NumericValue(col.vals[i])
               ELSE Num(0)],
           "int64")

\* pd.to_numeric(col, errors='ignore'): all values or nothing
ToNumeric(col) ==
    IF \A i \in 1..Len(col.vals) : NumericParseable(col.vals[i])
    THEN Column(col.name,
                [i \in 1..Len(col.vals) |-> NumericValue(col.vals[i])], "int64")
    ELSE col

\* pd.to_datetime(col, errors='ignore'): all values or nothing
ToDatetime(col) ==
    IF \A i \in 1..Len(col.vals) : DateParseable(col.vals[i])
    THEN Column(col.name,
                [i \in 1..Len(col.vals) |-> DateValue(col.vals[i])], "datetime64")
    ELSE col

\* variant: lines 55-56 with errors='coerce'
NumericStepCoerce(col) ==
    IF col.dtype = "object" THEN ToNumericCoerce(col) ELSE col

\* lines 55-56: if df[col].dtype == 'object': df[col] = pd.to_numeric(...)
NumericStepOf(col) ==
    IF col.dtype = "object" THEN ToNumeric(col) ELSE col

\* variant: lines 59-60 without .lower()
DateStepCaseSensitive(col) ==
    IF IsDateNameCaseSensitive(col.name) THEN ToDatetime(col) ELSE col

\* lines 59-60: if 'tanggal' in col.lower() or 'date' in col.lower(): ...
DateStepOf(col) ==
    IF IsDateName(col.name) THEN ToDatetime(col) ELSE col

\* the whole loop of lines 53-60 over a frame
RECURSIVE CoerceFrom(_, _)
CoerceFrom(frame, j) ==
    IF j > Len(frame.cols) THEN frame
    ELSE CoerceFrom([frame EXCEPT !.cols[j] = DateStepOf(NumericStepOf(@))], j + 1)

Coerce(frame) == CoerceFrom(frame, 1)

(***************************************************************************)
(* The remote worksheet and the inputs a user can type                     *)
(***************************************************************************)
Tanggal == <<"T","a","n","g","g","a","l">>
Penjualan == <<"P","e","n","j","u","a","l","a","n">>
Produk == <<"P","r","o","d","u","k">>
Update == <<"U","p","d","a","t","e">>

EmptySheet == [names |-> <<>>, rows |-> <<>>]

\* the records of the sample sheet
SheetA == [names |-> <<Tanggal, Penjualan, Produk>>,
           rows |-> << <<Str("2024-01-01"), Num(5000000), Str("Laptop")>>,
                       <<Str("2024-01-02"), Num(7500000), Str("Mouse")>> >>]

\* the sheet after an edit that drops a column, moves one and keeps one row
SheetB == [names |-> <<Produk, Tanggal>>,
           rows |-> << <<Str("Mouse"), Str("2024-01-02")>> >>]

Contents == {EmptySheet, SheetA, SheetB}

UrlInputs == {"", "u1"}
NameInputs == {"Sheet1", "Nope"}
Worksheets == {"Sheet1"}          \* the worksheets the spreadsheet has

Keys == (UrlInputs \ {""}) \X NameInputs

Key(s) == <<sheet_url[s], sheet_name[s]>>

Sess == DOMAIN pc

(***************************************************************************)
(* st.cache_data: entries by key, a freshness window, a per-key compute    *)
(* lock, and clear()                                                       *)
(***************************************************************************)
NoEntry == [present |-> FALSE, val |-> NoneVal, age |-> 0, old |-> {}]

\* variant: ttl=0, no entry is ever served
FreshNever(e) == FALSE

\* ttl=300: an entry is served while it is younger than the window
Fresh(e) == e.age < TTL

\* read_result: a hit needs an entry that has not expired
Hit(cache, k) == cache[k].present /\ Fresh(cache[k])

\* write_result: the entry of the key is replaced
WriteResult(cache, k, v) ==
    [cache EXCEPT ![k] = [present |-> TRUE, val |-> v, age |-> 0, old |-> {}]]

\* variant: the clear is missing
ClearNothing(cache) == cache

\* st.cache_data.clear(): every entry of every cached function goes
ClearCache(cache) == [k \in DOMAIN cache |-> NoEntry]

\* history: the entries a clear of session s finds are marked before it runs
MarkOld(cache, s) ==
    [k \in DOMAIN cache |->
        IF cache[k].present THEN [cache[k] EXCEPT !.old = @ \cup {s}] ELSE cache[k]]

\* time passes: entries age and expire
AgeCache(cache, d) ==
    [k \in DOMAIN cache |->
        IF cache[k].present /\ cache[k].age + d < TTL
        THEN [cache[k] EXCEPT !.age = @ + d]
        ELSE NoEntry]

(***************************************************************************)
(* History of the freshness windows (not program state): per key, the      *)
(* value the first fetch of the window returned, the time since, and       *)
(* whether the cache was cleared since; an edit of the sheet ends it       *)
(***************************************************************************)
NoWin == [active |-> FALSE, val |-> NoneVal, age |-> 0, cleared |-> FALSE]

AgeWin(w, d) ==
    [k \in DOMAIN w |->
        IF w[k].active /\ w[k].age + d < TTL
        THEN [w[k] EXCEPT !.age = @ + d]
        ELSE NoWin]

\* an edit of the sheet ends the windows of the keys that read it
WinEdited(w) ==
    [k \in DOMAIN w |-> IF k[2] \in Worksheets THEN NoWin ELSE w[k]]

WinCleared(w) ==
    [k \in DOMAIN w |-> IF w[k].active THEN [w[k] EXCEPT !.cleared = TRUE] ELSE w[k]]

\* a fetch returns v for key k, read from the sheet as it was in `seen`: it
\* opens a window unless one is open or the sheet was edited meanwhile
WinFetched(w, k, v, seen) ==
    IF w[k].active \/ (k[2] \in Worksheets /\ remote # seen) THEN w
    ELSE [w EXCEPT ![k] = [active |-> TRUE, val |-> v, age |-> 0, cleared |-> FALSE]]

(***************************************************************************)
(* The page                                                                *)
(***************************************************************************)
Dashboard(frame) ==
    {"success", "metrics", "table", "download", "quality"}
    \cup (IF NumericCols(frame) # {} THEN {"charts", "stats"} ELSE {"nocharts"})

DashboardElements ==
    {"success", "metrics", "table", "download", "quality", "charts", "stats", "nocharts"}

\* variant: the test without `not df.empty`
ShowDashboardNotNone(frame) == ~frame.none

\* line 99: if df is not None and not df.empty
ShowDashboard(frame) == ~frame.none /\ ~Empty(frame)

\* lines 99-251: the branch on df
MainContent(frame) ==
    IF ShowDashboard(frame) THEN Dashboard(frame)
    ELSE IF ~frame.none THEN {"warning"}
    ELSE {"error"}

(***************************************************************************)
(* Exceptions of load_data's body and its handler                          *)
(***************************************************************************)
\* variant: except gspread.exceptions.APIError
CatchesApiErrorOnly(e) == e = "APIError"

\* line 64: except Exception
Catches(e) == e \in {"SpreadsheetNotFound", "WorksheetNotFound", "APIError"}

\* variant: range(300, 1, -1)
LoopDoneEarly(sec) == sec <= 1

\* line 239: range(300, 0, -1) is exhausted
LoopDone(sec) == sec = 0

\* the iterations at which a user's interaction may arrive
InterruptAt == {Countdown, Countdown \div 2, 1}

(***************************************************************************)
(* Initial states                                                          *)
(***************************************************************************)
\* a session's first script run: empty URL, "Sheet1", no auto refresh
InitFor(S) ==
    /\ resourceCache = "unset"
    /\ handshakes = 0
    /\ dataCache = [k \in Keys |-> NoEntry]
    /\ lock = [k \in Keys |-> "free"]
    /\ remote \in Contents
    /\ win = [k \in Keys |-> NoWin]
    /\ pc = [s \in S |-> "sidebar"]
    /\ sheet_url = [s \in S |-> ""]
    /\ sheet_name = [s \in S |-> "Sheet1"]
    /\ auto_refresh = [s \in S |-> FALSE]
    /\ button = [s \in S |-> FALSE]
    /\ df = [s \in S |-> NoneVal]
    /\ data = [s \in S |-> EmptySheet]
    /\ local = [s \in S |-> NoneVal]
    /\ idx = [s \in S |-> 0]
    /\ seconds = [s \in S |-> 0]
    /\ slept = [s \in S |-> 0]
    /\ page = [s \in S |-> {}]
    /\ outcome = [s \in S |-> "none"]
    /\ forced = [s \in S |-> "no"]

Init == InitFor({"s1"})

InitConc == InitFor({"s1", "s2"})

(***************************************************************************)
(* A script run starts: the run's variables are fresh                      *)
(***************************************************************************)
StartRun(s, u, n, a, b, f) ==
    /\ pc' = [pc EXCEPT ![s] = "sidebar"]
    /\ sheet_url' = [sheet_url EXCEPT ![s] = u]
    /\ sheet_name' = [sheet_name EXCEPT ![s] = n]
    /\ auto_refresh' = [auto_refresh EXCEPT ![s] = a]
    /\ button' = [button EXCEPT ![s] = b]
    /\ df' = [df EXCEPT ![s] = NoneVal]
    /\ data' = [data EXCEPT ![s] = EmptySheet]
    /\ local' = [local EXCEPT ![s] = NoneVal]
    /\ idx' = [idx EXCEPT ![s] = 0]
    /\ seconds' = [seconds EXCEPT ![s] = 0]
    /\ slept' = [slept EXCEPT ![s] = 0]
    /\ page' = [page EXCEPT ![s] = {}]
    /\ outcome' = [outcome EXCEPT ![s] = "none"]
    /\ forced' = [forced EXCEPT ![s] = f]

\* the widget states a user interaction can produce
Interaction(s, names, autos, u, n, a, b) ==
    /\ u \in UrlInputs /\ n \in names /\ a \in autos /\ b \in BOOLEAN
    /\ b \/ <<u, n, a>> # <<sheet_url[s], sheet_name[s], auto_refresh[s]>>

\* a user changes a widget or presses the button while no run is active:
\* the script is re-run with the new widget state
Interact(s, names, autos) ==
    /\ pc[s] = "idle"
    /\ \E u \in UrlInputs, n \in names, a \in autos, b \in BOOLEAN :
          /\ Interaction(s, names, autos, u, n, a, b)
          /\ StartRun(s, u, n, a, b, "no")
    /\ UNCHANGED globals

(***************************************************************************)
(* Lines 73-94: the sidebar and the branch on sheet_url                    *)
(***************************************************************************)
\* lines 89-91: the button was pressed: clear the data cache and re-run
ManualRefresh(s) ==
    /\ pc[s] = "sidebar" /\ button[s]
    /\ dataCache' = ClearCache(MarkOld(dataCache, s))
    /\ win' = WinCleared(win)
    /\ StartRun(s, sheet_url[s], sheet_name[s], auto_refresh[s], FALSE, "manual")
    /\ UNCHANGED <<resourceCache, handshakes, lock, remote>>

\* line 94 with a URL: load_data is called; st.cache_data reads the cache
Lookup(s) ==
    /\ pc[s] = "sidebar" /\ ~button[s] /\ sheet_url[s] # ""
    /\ IF Hit(dataCache, Key(s))
       THEN /\ df' = [df EXCEPT ![s] = dataCache[Key(s)].val]
            /\ outcome' = [outcome EXCEPT ![s] = "hit"]
            /\ pc' = [pc EXCEPT ![s] = "render"]
       ELSE /\ pc' = [pc EXCEPT ![s] = "acquire"]
            /\ UNCHANGED <<df, outcome>>
    /\ UNCHANGED <<globals, sheet_url, sheet_name, auto_refresh, button, data,
                   local, idx, seconds, slept, page, forced>>

\* lines 253-275: no URL: the welcome screen
Welcome(s) ==
    /\ pc[s] = "sidebar" /\ ~button[s] /\ sheet_url[s] = ""
    /\ page' = [page EXCEPT ![s] = {"welcome"}]
    /\ pc' = [pc EXCEPT ![s] = "idle"]
    /\ UNCHANGED <<globals, sheet_url, sheet_name, auto_refresh, button, df, data,
                   local, idx, seconds, slept, outcome, forced>>

(***************************************************************************)
(* Lines 36-66: load_data behind st.cache_data                             *)
(***************************************************************************)
\* a miss takes the key's compute lock and reads the cache again
Acquire(s) ==
    /\ pc[s] = "acquire"
    /\ lock[Key(s)] = "free"
    /\ IF Hit(dataCache, Key(s))
       THEN /\ df' = [df EXCEPT ![s] = dataCache[Key(s)].val]
            /\ outcome' = [outcome EXCEPT ![s] = "hit"]
            /\ pc' = [pc EXCEPT ![s] = "render"]
            /\ UNCHANGED lock
       ELSE /\ pc' = [pc EXCEPT ![s] = "connect"]
            /\ lock' = [lock EXCEPT ![Key(s)] = s]
            /\ UNCHANGED <<df, outcome>>
    /\ UNCHANGED <<resourceCache, handshakes, dataCache, remote, win, sheet_url,
                   sheet_name, auto_refresh, button, data, local, idx, seconds,
                   slept, page, forced>>

\* variant: only a client is kept, a failure is tried again
StoreResourceIfClient(cache, result) ==
    IF result = "client" THEN result ELSE cache

\* @st.cache_resource: whatever connect_to_gsheet returned is kept
StoreResource(cache, result) == result

\* variant: connect_to_gsheet without the decorator
ResourceMissAlways(cache) == TRUE

\* line 17: connect_to_gsheet's body runs only while nothing is cached
ResourceMiss(cache) == cache = "unset"

\* lines 17-33 and 40-42: client = connect_to_gsheet(); if not client: return None
Connect(s) ==
    /\ pc[s] = "connect"
    /\ \E ok \in BOOLEAN :
          LET miss == ResourceMiss(resourceCache)
              result == IF ok THEN "client" ELSE "none"
              client == IF miss THEN result ELSE resourceCache
          IN /\ miss \/ ok = (resourceCache = "client")
             /\ resourceCache' =
                   IF miss THEN StoreResource(resourceCache, result) ELSE resourceCache
             /\ handshakes' =
                   IF miss THEN Min(handshakes + 1, MaxHandshakes) ELSE handshakes
             /\ IF client = "client"
                THEN /\ pc' = [pc EXCEPT ![s] = "fetch"]
                     /\ UNCHANGED <<local, outcome, page, data>>
                ELSE /\ pc' = [pc EXCEPT ![s] = "return"]
                     /\ local' = [local EXCEPT ![s] = NoneVal]
                     /\ data' = [data EXCEPT ![s] = remote]
                     /\ outcome' = [outcome EXCEPT ![s] = "noclient"]
                     /\ page' = [page EXCEPT ![s] =
                                   @ \cup (IF miss THEN {"Error koneksi"} ELSE {})]
    /\ UNCHANGED <<dataCache, lock, remote, win, sheet_url, sheet_name, auto_refresh,
                   button, df, idx, seconds, slept, forced>>

\* what lines 45-49 can raise for this session's inputs, or "ok"
FetchResults(s) ==
    {"SpreadsheetNotFound", "APIError"}
    \cup (IF sheet_name[s] \in Worksheets THEN {"ok"} ELSE {"WorksheetNotFound"})

\* lines 45-50 and 64-66: open_by_url, worksheet, get_all_records, DataFrame;
\* an exception reaches the handler, or leaves load_data when it is not caught
Fetch(s) ==
    /\ pc[s] = "fetch"
    /\ \E r \in FetchResults(s) :
          /\ data' = [data EXCEPT ![s] = remote]
          /\ IF r = "ok"
             THEN /\ local' = [local EXCEPT ![s] = DataFrame(remote)]
                  /\ outcome' = [outcome EXCEPT ![s] = "ok"]
                  /\ idx' = [idx EXCEPT ![s] = 1]
                  /\ pc' = [pc EXCEPT ![s] =
                              IF DataFrame(remote).cols = <<>> THEN "return"
                              ELSE "numeric"]
                  /\ UNCHANGED <<page, lock>>
             ELSE IF Catches(r)
             THEN /\ local' = [local EXCEPT ![s] = NoneVal]
                  /\ outcome' = [outcome EXCEPT ![s] = r]
                  /\ page' = [page EXCEPT ![s] = @ \cup {"Error loading data"}]
                  /\ pc' = [pc EXCEPT ![s] = "return"]
                  /\ UNCHANGED <<idx, lock>>
             ELSE /\ outcome' = [outcome EXCEPT ![s] = r]
                  /\ page' = [page EXCEPT ![s] = @ \cup {"exception"}]
                  /\ pc' = [pc EXCEPT ![s] = "idle"]
                  /\ lock' = [lock EXCEPT ![Key(s)] = "free"]
                  /\ UNCHANGED <<idx, local>>
    /\ UNCHANGED <<resourceCache, handshakes, dataCache, remote, win, sheet_url,
                   sheet_name, auto_refresh, button, df, seconds, slept, forced>>

\* variant: the loop stops one column early
LoopContinuesShort(i, n) == i < n - 1

\* line 53: for col in df.columns has a next column after column i of n
LoopContinues(i, n) == i < n

\* lines 55-56 for the column at idx
NumericStep(s) ==
    /\ pc[s] = "numeric"
    /\ local' = [local EXCEPT ![s].cols[idx[s]] = NumericStepOf(@)]
    /\ pc' = [pc EXCEPT ![s] = "date"]
    /\ UNCHANGED <<globals, sheet_url, sheet_name, auto_refresh, button, df, data,
                   idx, seconds, slept, page, outcome, forced>>

\* lines 59-60 for the column at idx, and the loop's next column
DateStep(s) ==
    /\ pc[s] = "date"
    /\ local' = [local EXCEPT ![s].cols[idx[s]] = DateStepOf(@)]
    /\ idx' = [idx EXCEPT ![s] = @ + 1]
    /\ pc' = [pc EXCEPT ![s] =
                IF LoopContinues(idx[s], Len(local[s].cols)) THEN "numeric"
                ELSE "return"]
    /\ UNCHANGED <<globals, sheet_url, sheet_name, auto_refresh, button, df, data,
                   seconds, slept, page, outcome, forced>>

\* lines 42, 62, 66: load_data returns; st.cache_data writes the entry and
\* releases the compute lock
Return(s) ==
    /\ pc[s] = "return"
    /\ dataCache' = WriteResult(dataCache, Key(s), local[s])
    /\ win' = WinFetched(win, Key(s), local[s], data[s])
    /\ lock' = [lock EXCEPT ![Key(s)] = "free"]
    /\ df' = [df EXCEPT ![s] = local[s]]
    /\ local' = [local EXCEPT ![s] = NoneVal]
    /\ idx' = [idx EXCEPT ![s] = 0]
    /\ pc' = [pc EXCEPT ![s] = "render"]
    /\ UNCHANGED <<resourceCache, handshakes, remote, sheet_url, sheet_name,
                   auto_refresh, button, data, seconds, slept, page, outcome,
                   forced>>

(***************************************************************************)
(* Lines 99-251: the page, and the auto refresh countdown                  *)
(***************************************************************************)
Render(s) ==
    /\ pc[s] = "render"
    /\ page' = [page EXCEPT ![s] = @ \cup MainContent(df[s])]
    /\ IF ShowDashboard(df[s]) /\ auto_refresh[s]
       THEN /\ pc' = [pc EXCEPT ![s] = "countdown"]
            /\ seconds' = [seconds EXCEPT ![s] = Countdown]
       ELSE /\ pc' = [pc EXCEPT ![s] = "idle"]
            /\ UNCHANGED seconds
    /\ UNCHANGED <<globals, sheet_url, sheet_name, auto_refresh, button, df, data,
                   local, idx, slept, outcome, forced>>

\* lines 239-242: one iteration: show the remaining time, sleep one unit
CountdownIter(s) ==
    /\ pc[s] = "countdown" /\ ~LoopDone(seconds[s])
    /\ seconds' = [seconds EXCEPT ![s] = @ - 1]
    /\ slept' = [slept EXCEPT ![s] = @ + SleepUnit]
    /\ dataCache' = AgeCache(dataCache, SleepUnit)
    /\ win' = AgeWin(win, SleepUnit)
    /\ UNCHANGED <<resourceCache, handshakes, lock, remote, pc, sheet_url,
                   sheet_name, auto_refresh, button, df, data, local, idx, page,
                   outcome, forced>>

\* lines 244-246: after the loop: clear the data cache and re-run
AutoRefresh(s) ==
    /\ pc[s] = "countdown" /\ LoopDone(seconds[s])
    /\ dataCache' = ClearCache(MarkOld(dataCache, s))
    /\ win' = WinCleared(win)
    /\ StartRun(s, sheet_url[s], sheet_name[s], auto_refresh[s], FALSE, "auto")
    /\ UNCHANGED <<resourceCache, handshakes, lock, remote>>

\* line 241: placeholder.text is where the script runner stops a run whose
\* session has a pending interaction, and re-runs with the new widget state
Interrupt(s) ==
    /\ pc[s] = "countdown" /\ seconds[s] \in InterruptAt
    /\ \E u \in UrlInputs, n \in NameInputs, a \in BOOLEAN, b \in BOOLEAN :
          /\ Interaction(s, NameInputs, BOOLEAN, u, n, a, b)
          /\ StartRun(s, u, n, a, b, "no")
    /\ UNCHANGED globals

(***************************************************************************)
(* The environment: the sheet is edited; time passes                       *)
(***************************************************************************)
EditSheet ==
    /\ \E c \in Contents \ {remote} : remote' = c
    /\ win' = WinEdited(win)
    /\ UNCHANGED <<resourceCache, handshakes, dataCache, lock, pc, sheet_url,
                   sheet_name, auto_refresh, button, df, data, local, idx, seconds,
                   slept, page, outcome, forced>>

Idle ==
    /\ \A s \in Sess : pc[s] # "countdown"
    /\ dataCache' = AgeCache(dataCache, IdleStep)
    /\ win' = AgeWin(win, IdleStep)
    /\ UNCHANGED <<resourceCache, handshakes, lock, remote, pc, sheet_url,
                   sheet_name, auto_refresh, button, df, data, local, idx, seconds,
                   slept, page, outcome, forced>>

(***************************************************************************)
(* Specifications                                                          *)
(***************************************************************************)
\* one session, with the auto refresh countdown
Next ==
    \/ \E s \in Sess : Interact(s, NameInputs, BOOLEAN)
    \/ \E s \in Sess : ManualRefresh(s)
    \/ \E s \in Sess : Lookup(s)
    \/ \E s \in Sess : Welcome(s)
    \/ \E s \in Sess : Acquire(s)
    \/ \E s \in Sess : Connect(s)
    \/ \E s \in Sess : Fetch(s)
    \/ \E s \in Sess : NumericStep(s)
    \/ \E s \in Sess : DateStep(s)
    \/ \E s \in Sess : Return(s)
    \/ \E s \in Sess : Render(s)
    \/ \E s \in Sess : CountdownIter(s)
    \/ \E s \in Sess : AutoRefresh(s)
    \/ \E s \in Sess : Interrupt(s)
    \/ EditSheet
    \/ Idle

Spec == Init /\ [][Next]_vars

\* two sessions that share the caches and load the same sheet; auto refresh
\* stays off
NextConc ==
    \/ \E s \in Sess : Interact(s, Worksheets, {FALSE})
    \/ \E s \in Sess : ManualRefresh(s)
    \/ \E s \in Sess : Lookup(s)
    \/ \E s \in Sess : Welcome(s)
    \/ \E s \in Sess : Acquire(s)
    \/ \E s \in Sess : Connect(s)
    \/ \E s \in Sess : Fetch(s)
    \/ \E s \in Sess : NumericStep(s)
    \/ \E s \in Sess : DateStep(s)
    \/ \E s \in Sess : Return(s)
    \/ \E s \in Sess : Render(s)
    \/ EditSheet
    \/ Idle

SpecConc == InitConc /\ [][NextConc]_vars

(***************************************************************************)
(* The coercion loop on generated frames: two columns, names and cells     *)
(* drawn from small sets, one to MaxRows records                           *)
(***************************************************************************)
CoerceNames == <<Tanggal, Update, Produk, Penjualan>>

CellValues == {Num(5), Str("12"), Str("2024-01-01"), Str("Laptop")}

GenRows ==
    UNION {[1..r -> CellValues \X CellValues] : r \in 1..MaxRows}

GenRecords ==
    {[names |-> <<CoerceNames[a], CoerceNames[b]>>, rows |-> rows] :
        a \in 1..Len(CoerceNames), b \in 1..Len(CoerceNames), rows \in GenRows}

\* load_data of session s1 right after line 50, for a sheet of generated records
InitCoerce ==
    /\ resourceCache = "client"
    /\ handshakes = 1
    /\ dataCache = [k \in Keys |-> NoEntry]
    /\ lock = [k \in Keys |-> IF k = <<"u1", "Sheet1">> THEN "s1" ELSE "free"]
    /\ remote \in {g \in GenRecords : g.names[1] # g.names[2]}
    /\ win = [k \in Keys |-> NoWin]
    /\ pc = [s \in {"s1"} |-> "numeric"]
    /\ sheet_url = [s \in {"s1"} |-> "u1"]
    /\ sheet_name = [s \in {"s1"} |-> "Sheet1"]
    /\ auto_refresh = [s \in {"s1"} |-> FALSE]
    /\ button = [s \in {"s1"} |-> FALSE]
    /\ df = [s \in {"s1"} |-> NoneVal]
    /\ data = [s \in {"s1"} |-> remote]
    /\ local = [s \in {"s1"} |-> DataFrame(remote)]
    /\ idx = [s \in {"s1"} |-> 1]
    /\ seconds = [s \in {"s1"} |-> 0]
    /\ slept = [s \in {"s1"} |-> 0]
    /\ page = [s \in {"s1"} |-> {}]
    /\ outcome = [s \in {"s1"} |-> "ok"]
    /\ forced = [s \in {"s1"} |-> "no"]

NextCoerce ==
    \/ \E s \in Sess : NumericStep(s)
    \/ \E s \in Sess : DateStep(s)
    \/ \E s \in Sess : Return(s)

SpecCoerce == InitCoerce /\ [][NextCoerce]_vars

(***************************************************************************)
(* Properties                                                              *)
(***************************************************************************)
Failures == {"noclient", "SpreadsheetNotFound", "WorksheetNotFound", "APIError"}

AllNumeric(vals) == \A i \in 1..Len(vals) : NumericParseable(vals[i])

AllDates(vals) == \A i \in 1..Len(vals) : DateParseable(vals[i])

\* the frame load_data built from the records, before the coercion loop
Fetched(s) == DataFrame(data[s])

\* C1: a failure inside load_data never leaves it as an exception: load_data
\* yields None, the failure is shown as an error message, and the page of
\* that run is the error display, with no table, statistics, charts or
\* download button.
C1_FailuresContained ==
    \A s \in Sess :
        /\ "exception" \notin page[s]
        /\ outcome[s] \in Failures =>
              /\ pc[s] = "return" => local[s] = NoneVal
              /\ pc[s] \in {"render", "idle"} => df[s] = NoneVal
              /\ pc[s] # "countdown"
              /\ outcome[s] # "noclient" => "Error loading data" \in page[s]
              /\ pc[s] = "idle" =>
                    /\ "error" \in page[s]
                    /\ page[s] \cap (DashboardElements \cup {"warning"}) = {}

\* C1's case: a run whose sheet name was not found has ended on the error page
C1_Witness ==
    \E s \in Sess :
        /\ pc[s] = "idle" /\ outcome[s] = "WorksheetNotFound"
        /\ df[s] = NoneVal /\ page[s] = {"Error loading data", "error"}

\* C2 as stated: a load_data call made while the window of the key's first
\* fetch is open and the sheet is unedited returns what that fetch returned.
C2_Original ==
    [][\A s \in Sess :
          (pc[s] \in {"sidebar", "acquire", "return"} /\ pc'[s] = "render")
          => (win[Key(s)].active => df'[s] = win[Key(s)].val)]_vars

\* C2 as amended: the same, provided the data cache was not cleared (manual
\* refresh or auto refresh) since the window's first fetch.
C2_NoClear ==
    [][\A s \in Sess :
          (pc[s] \in {"sidebar", "acquire", "return"} /\ pc'[s] = "render")
          => ((win[Key(s)].active /\ ~win[Key(s)].cleared)
                => df'[s] = win[Key(s)].val)]_vars

\* C2's case: a later run was served the first fetch's dataset from the cache
C2_Witness ==
    \E s \in Sess :
        /\ pc[s] = "idle" /\ outcome[s] = "hit"
        /\ win[Key(s)].active /\ ~win[Key(s)].cleared /\ win[Key(s)].age > 0
        /\ ~df[s].none /\ df[s] = win[Key(s)].val

\* C3: a sheet that exists and has no records makes load_data return an
\* empty frame, not None, and the page shows the "no data" warning and
\* neither the error nor the dashboard.
C3_EmptySheet ==
    \A s \in Sess :
        (outcome[s] = "ok" /\ data[s].rows = <<>>) =>
            /\ pc[s] = "return" => (~local[s].none /\ Empty(local[s]))
            /\ pc[s] \in {"render", "idle"} => (~df[s].none /\ Empty(df[s]))
            /\ pc[s] # "countdown"
            /\ "Error loading data" \notin page[s]
            /\ pc[s] = "idle" => page[s] = {"warning"}

\* C3's case: a run that fetched no records has ended on the warning
C3_Witness ==
    \E s \in Sess :
        /\ pc[s] = "idle" /\ outcome[s] = "ok" /\ data[s].rows = <<>>
        /\ ~df[s].none /\ page[s] = {"warning"}

\* C4 as stated: the load_data call of the re-run after a manual refresh is
\* never served from the cache.
C4_Original ==
    \A s \in Sess : forced[s] = "manual" => outcome[s] # "hit"

\* C4 as amended: the manual refresh leaves no entry in the data cache,
\* whatever its age, and the load_data call of the re-run is not served an
\* entry that was cached before the clear: it runs the loader again, or it
\* is served an entry another session wrote after the clear.
C4_Invalidated ==
    [][\A s \in Sess :
          /\ (forced[s] # "manual" /\ forced'[s] = "manual")
                => \A k \in Keys : ~dataCache'[k].present
          /\ (forced[s] = "manual" /\ outcome[s] # "hit" /\ outcome'[s] = "hit")
                => (s \notin dataCache[Key(s)].old /\ df'[s] = dataCache[Key(s)].val)
          /\ (forced[s] = "manual" /\ pc[s] = "sidebar" /\ pc'[s] = "acquire")
                => ~Hit(dataCache, Key(s))]_vars

\* C4's case: the re-run after a manual refresh has fetched the records again
C4_Witness ==
    \E s \in Sess :
        /\ forced[s] = "manual" /\ outcome[s] = "ok" /\ pc[s] = "idle"
        /\ "table" \in page[s]

\* C5 as stated: after the coercion loop every column whose values are all
\* numeric-parseable is numeric, and every other column is as it was fetched.
C5_Original ==
    \A s \in Sess :
        (pc[s] = "return" /\ outcome[s] = "ok") =>
            \A j \in 1..Len(local[s].cols) :
                LET raw == Fetched(s).cols[j]
                    out == local[s].cols[j]
                IN IF AllNumeric(raw.vals) THEN out.dtype = "int64" ELSE out = raw

\* C5 as amended: this holds of the columns whose name contains neither
\* "date" nor "tanggal" (the others also go through the date step); the
\* numeric column holds the parsed numbers, and a column's result depends on
\* that column alone.
C5_NonDateColumns ==
    \A s \in Sess :
        (pc[s] = "return" /\ outcome[s] = "ok") =>
            /\ Len(local[s].cols) = Len(Fetched(s).cols)
            /\ \A j \in 1..Len(local[s].cols) :
                  LET raw == Fetched(s).cols[j]
                      out == local[s].cols[j]
                      alone == [none |-> FALSE, cols |-> <<raw>>]
                  IN /\ out = Coerce(alone).cols[1]
                     /\ ~IsDateName(raw.name) =>
                           IF AllNumeric(raw.vals)
                           THEN /\ out.dtype = "int64" /\ out.name = raw.name
                                /\ \A i \in 1..Len(raw.vals) :
                                      out.vals[i] = NumericValue(raw.vals[i])
                           ELSE out = raw

\* C5's case: beside a column that stays text, a column of numeric strings
\* has become numeric
C5_Witness ==
    \E s \in Sess :
        /\ pc[s] = "return" /\ outcome[s] = "ok" /\ Len(local[s].cols) = 2
        /\ Fetched(s).cols[1].name = Produk /\ ~AllNumeric(Fetched(s).cols[1].vals)
        /\ local[s].cols[1] = Fetched(s).cols[1]
        /\ Fetched(s).cols[2].name = Penjualan /\ Fetched(s).cols[2].dtype = "object"
        /\ local[s].cols[2].dtype = "int64"

CompleteResults == {NoneVal} \cup {Coerce(DataFrame(c)) : c \in Contents}

C9_HandleReused ==
    [][resourceCache = "client"
          => (resourceCache' = "client" /\ handshakes' = handshakes
              /\ handshakes = 1)]_vars

\* C9's case: a load that followed an auto refresh ran the loader with the
\* handle of the one handshake
C9_Witness ==
    \E s \in Sess :
        /\ resourceCache = "client" /\ handshakes = 1
        /\ forced[s] = "auto" /\ outcome[s] = "ok" /\ pc[s] = "render"

\* C10: when the first connect_to_gsheet call has failed, the resource cache
\* holds its None and keeps holding it, no further handshake is attempted,
\* and every load_data call returns None.
C10_FailureSticky ==
    [][(handshakes >= 1 /\ resourceCache # "client")
          => /\ resourceCache = "none" /\ resourceCache' = "none"
             /\ handshakes = 1 /\ handshakes' = 1
             /\ \A s \in Sess : df'[s] = NoneVal
             /\ \A s \in Sess : outcome'[s] \in {"none", "hit", "noclient"}]_vars

\* C10's case: the re-run after a manual refresh was refused again without a
\* handshake and ended on the error page
C10_Witness ==
    \E s \in Sess :
        /\ resourceCache = "none" /\ handshakes = 1
        /\ forced[s] = "manual" /\ outcome[s] = "noclient" /\ pc[s] = "idle"
        /\ df[s] = NoneVal /\ "error" \in page[s]
====
